---------------------------- MODULE Spec2Model ----------------------------
(***************************************************************************)
(* Model of the global assembler of yaourt-fem-dg (class assembler<Mesh>)  *)
(* and of the assembly pass of its advection-reaction driver.              *)
(*                                                                         *)
(* Numbers.  T = double in the program.  Matrix and vector values are      *)
(* modelled in fixed point, one unit = 0.01, so that the threshold 1e-2 of *)
(* finalize() is the integer AssertTol and a value of 1 unit is a          *)
(* "near-zero but not zero" diagonal.  Sums of units are exact.            *)
(***************************************************************************)
EXTENDS Integers, Sequences, FiniteSets, TLC

(***************************************************************************)
(* Bound of the model.                                                     *)
(***************************************************************************)
MaxCalls == 4   \* calls the free caller makes on the assembler

(***************************************************************************)
(* Program constants.                                                      *)
(***************************************************************************)
AssertTol == 1     \* 1e-2 in units of 0.01: assert( std::abs(pc_temp[i]) > 1e-2 )
Scale     == 100   \* 1.0 in units of 0.01: the numerator of 1.0/pc_temp[i]
MeshDim   == 2     \* scalar_basis_size(degree, 2)

VARIABLES
    msh,          \* the mesh: [ncells, offset], offset a permutation of 0..ncells-1
    triplets,     \* std::vector<triplet_type>: sequence of <<row, col, value>>
    pc_triplets,  \* std::vector<triplet_type>
    sys_size,     \* size_t
    basis_size,   \* size_t
    build_pc,     \* bool (not set by the default constructor)
    lhs,          \* blaze::CompressedMatrix<T>: [n, e], e maps <<row, col>> to a value
    rhs,          \* blaze::DynamicVector<T>: 0..n-1 -> <<v>>, or <<>> where never written
    pc,           \* blaze::CompressedMatrix<T>: [n, e], e maps <<row, col>> to a rational
    pc_temp,      \* blaze::DynamicVector<T>: 0..n-1 -> value
    aborted,      \* the process was ended by a failed assert
    call,         \* the last call made on the assembler and how it returned
    emitted,      \* history: the entries pushed by assemble since the last initialize
    bpc_arg,      \* history: <<bpc>>, the bpc argument of the last initialize (<<>> before)
    nfinalized,   \* history: finalize() calls completed since the last initialize
    rhs_writes,   \* history: row -> number of writes of rhs[row] since the last initialize
    ncalls,       \* calls made so far by the free caller
    driver,       \* which program runs: "caller", the advection-reaction solver of
                  \* "part_000" or "part_001", or the "diffusion" solver of part_001
    cfg,          \* dg_config: [degree, use_preconditioner, use_upwinding, eta]
    step,         \* the solver's position in its function
    tcl,          \* the cell of the loop over msh.cells
    fc,           \* the face of the loop over faces(msh, tcl), counted from 1
    K, loc_rhs,   \* the cell's volume matrix and source vector
    Atn,          \* the neighbour block of the face just integrated
    fqps,         \* the quadrature points of the face just integrated
    geo,          \* the geometry the mesh gives a whole run: [flow, n, diam]
    eta_l,        \* the face penalty of the diffusion solver, the rational num/den
    cgp,          \* conjugated_gradient_params: a field is <<v>> once assigned by the solver
    iter, rr,     \* the iteration count and relative residual of the iterative solve
    sol,          \* the solution vector: 0..N-1 -> <<k>>, the k-th coefficient, or <<>>
    ecl,          \* the cell cl of the loop of the error pass
    loc_sol,      \* the cell's coefficients read by the error pass
    cell_rows     \* history: cell -> the rows of rhs its assemble call wrote

asm_vars  == <<triplets, pc_triplets, sys_size, basis_size, build_pc,
               lhs, rhs, pc, pc_temp, aborted>>
hist_vars == <<emitted, bpc_arg, nfinalized, rhs_writes>>
sol_vars  == <<geo, eta_l, cgp, iter, rr, sol, ecl, loc_sol>>
drv_vars  == <<driver, cfg, step, tcl, fc, K, loc_rhs, Atn, fqps, sol_vars, cell_rows>>
vars      == <<msh, asm_vars, call, hist_vars, ncalls, drv_vars>>

(***************************************************************************)
(* Helpers over integers, vectors and sparse matrices.                     *)
(***************************************************************************)
Abs(x) == IF x < 0 THEN -x ELSE x

Range(s) == {s[k] : k \in DOMAIN s}

\* the sum of the values of the entries of sequence s at the indices ks
RECURSIVE SumValues(_, _)
SumValues(s, ks) ==
    IF ks = {} THEN 0
    ELSE LET k == CHOOSE x \in ks : TRUE
         IN  s[k][3] + SumValues(s, ks \ {k})

\* the sum of the values of the entries of sequence s at coordinate <<r, c>>
SumAt(s, r, c) == SumValues(s, {k \in DOMAIN s : s[k][1] = r /\ s[k][2] = c})

\* the value of a sparse matrix at (r, c): 0 where no entry is stored
At(M, r, c) == IF <<r, c>> \in DOMAIN M.e THEN M.e[<<r, c>>] ELSE 0

EmptyMatrix == [n |-> 0, e |-> <<>>]

\* blaze::CompressedMatrix::resize(m, n): the entries inside the new shape are kept
MatrixResize(M, n) ==
    [n |-> n,
     e |-> [p \in {q \in DOMAIN M.e : q[1] < n /\ q[2] < n} |-> M.e[p]]]

\* blaze::DynamicVector::resize(n): old elements are kept, new ones are not initialized
VectorResize(v, n) ==
    [i \in 0..(n - 1) |-> IF i \in DOMAIN v THEN v[i] ELSE <<>>]

\* the reciprocal 1.0/x of a value of x units, as the rational num/den
Reciprocal(x) ==
    IF x = 0 THEN [num |-> 1, den |-> 0]
    ELSE [num |-> IF x < 0 THEN -Scale ELSE Scale, den |-> Abs(x)]

\* dg2d::bases::scalar_basis_size(k, d): binomial(k + d, d)
RECURSIVE scalar_basis_size(_, _)
scalar_basis_size(k, d) ==
    IF d = 0 THEN 1 ELSE (scalar_basis_size(k, d - 1) * (k + d)) \div d

\* blaze::init_from_triplets(M, begin, end): M becomes the matrix of the
\* entries, the values of entries with equal (row, col) summed
init_from_triplets(M, s) ==
    [n |-> M.n,
     e |-> [p \in {<<t[1], t[2]>> : t \in Range(s)} |-> SumAt(s, p[1], p[2])]]

\* as above for the preconditioner, whose values are rationals: its entries
\* have pairwise distinct coordinates, so no two are summed
init_pc_from_triplets(M, s) ==
    [n |-> M.n,
     e |-> [p \in {<<t[1], t[2]>> : t \in Range(s)} |->
              (CHOOSE t \in Range(s) : t[1] = p[1] /\ t[2] = p[2])[3]]]

offset(m, cl) == m.offset[cl]

Cells == 0..(msh.ncells - 1)


(***************************************************************************)
(* Inputs.  A local block is a function 0..b-1 -> 0..b-1 -> value; the     *)
(* family below has distinct values on, above and below the diagonal, so   *)
(* that rows and columns cannot be confused.                               *)
(***************************************************************************)
Idx(b) == 0..(b - 1)

MkBlock(b, d, u) ==
    [i \in Idx(b) |-> [j \in Idx(b) |->
        IF i = j THEN d ELSE IF i < j THEN u ELSE -u]]

MkVector(b, v) == [i \in Idx(b) |-> v + i]

\* the polynomial degrees the caller asks for: basis sizes 1 and 3
Degrees  == {0, 1}
DiagVals == {-2, 3}
OffVals  == {2}
VecVals  == {5}

Blocks(b)  == {MkBlock(b, d, u) : d \in DiagVals, u \in OffVals}
Vectors(b) == {MkVector(b, v) : v \in VecVals}

\* the numbers of cells of the meshes tried
MeshSizes == {0, 1, 2}

\* a face of a cell: what neighbour_via(msh, cl, fc) returns for it
Boundary(cl)  == [ncl |-> cl, has_neighbour |-> FALSE]
Interior(ncl) == [ncl |-> ncl, has_neighbour |-> TRUE]

\* the faces of the cells of a triangular mesh of n cells: one triangle, or
\* two triangles that share a face
Faces(n) ==
    IF n = 1 THEN [c \in {0} |-> <<Boundary(0), Boundary(0), Boundary(0)>>]
    ELSE IF n = 2 THEN [c \in {0, 1} |->
            IF c = 0 THEN <<Boundary(0), Interior(1), Boundary(0)>>
                     ELSE <<Interior(0), Boundary(1), Boundary(1)>>]
    ELSE [c \in 0..(n - 1) |-> <<>>]

\* the meshes: n cells 0..n-1 whose offsets are a permutation of 0..n-1
\* (the identity and the reversal)
Meshes ==
    UNION {{[ncells |-> n, offset |-> f, faces |-> Faces(n)] :
              f \in {[c \in 0..(n - 1) |-> c], [c \in 0..(n - 1) |-> n - 1 - c]}} :
           n \in MeshSizes}

(***************************************************************************)
(* class assembler                                                         *)
(***************************************************************************)

\* assembler(): sys_size(0), basis_size(0); the containers are empty and
\* build_pc holds whatever the storage held
assembler_default ==
    /\ triplets = <<>>
    /\ pc_triplets = <<>>
    /\ sys_size = 0
    /\ basis_size = 0
    /\ build_pc \in BOOLEAN
    /\ lhs = EmptyMatrix
    /\ rhs = <<>>
    /\ pc = EmptyMatrix
    /\ pc_temp = <<>>
    /\ aborted = FALSE

\* a guard that lets every call through
invalid_state_unchecked == FALSE

\* if ( sys_size == 0 or basis_size == 0 )
invalid_state == sys_size = 0 \/ basis_size = 0

\* throw std::invalid_argument("Assembler in invalid state"): the object is untouched
throw_invalid(op, args) ==
    /\ call' = [op |-> op, args |-> args, ret |-> "invalid_argument", id |-> call.id + 1]
    /\ UNCHANGED <<asm_vars, hist_vars>>

\* void initialize(const Mesh& msh, size_t degree, bool bpc = false)
initialize(degree, bpc) ==
    LET bs == scalar_basis_size(degree, MeshDim)
        ss == bs * msh.ncells
    IN  /\ basis_size' = bs
        /\ sys_size' = ss
        /\ lhs' = MatrixResize(lhs, ss)
        /\ rhs' = VectorResize(rhs, ss)
        /\ pc' = MatrixResize(pc, ss)
        /\ pc_temp' = [i \in 0..(ss - 1) |-> 0]
        /\ build_pc' = TRUE
        /\ UNCHANGED <<triplets, pc_triplets, aborted>>
        /\ call' = [op |-> "initialize", args |-> <<degree, bpc>>, ret |-> "ok",
                    id |-> call.id + 1]
        /\ emitted' = <<>>
        /\ bpc_arg' = <<bpc>>
        /\ nfinalized' = 0
        /\ rhs_writes' = [i \in 0..(ss - 1) |-> 0]

\* triplets.push_back(...), for the entries of one call in order
push_back(list, new) == list \o new

\* a row taken local to the cell
RhsRow_local(cl_ofs, i) == i

\* auto ci = cl_ofs + i: the row of rhs written for local row i
RhsRow(cl_ofs, i) == cl_ofs + i

\* the double loop with the two offsets exchanged
BlockTriplets_swapped(a_ofs, b_ofs, local_rhs) ==
    [k \in 1..(basis_size * basis_size) |->
        LET i == (k - 1) \div basis_size
            j == (k - 1) % basis_size
        IN  <<b_ofs + i, a_ofs + j, local_rhs[i][j]>>]

\* the entries the double loop over (i, j) pushes, in the order it pushes them
BlockTriplets(a_ofs, b_ofs, local_rhs) ==
    [k \in 1..(basis_size * basis_size) |->
        LET i == (k - 1) \div basis_size
            j == (k - 1) % basis_size
        IN  <<a_ofs + i, b_ofs + j, local_rhs[i][j]>>]

\* if (build_pc && ci == cj) pc_temp[ci] += local_rhs(i,j), over the double loop:
\* row r is hit by the one pair (i, j) with a_ofs + i = r = b_ofs + j, if there is one
DiagAccumulate(a_ofs, b_ofs, local_rhs) ==
    [r \in DOMAIN pc_temp |->
        IF /\ build_pc
           /\ r - a_ofs \in Idx(basis_size)
           /\ r - b_ofs \in Idx(basis_size)
        THEN pc_temp[r] + local_rhs[r - a_ofs][r - b_ofs]
        ELSE pc_temp[r]]

\* bool assemble(msh, cl_a, cl_b, local_rhs)
assemble_block(cl_a, cl_b, local_rhs) ==
    IF invalid_state
    THEN throw_invalid("assemble_block", <<cl_a, cl_b, local_rhs>>)
    ELSE LET cl_a_ofs == offset(msh, cl_a) * basis_size
             cl_b_ofs == offset(msh, cl_b) * basis_size
             new      == BlockTriplets(cl_a_ofs, cl_b_ofs, local_rhs)
         IN  /\ triplets' = push_back(triplets, new)
             /\ pc_temp' = DiagAccumulate(cl_a_ofs, cl_b_ofs, local_rhs)
             /\ UNCHANGED <<pc_triplets, sys_size, basis_size, build_pc,
                            lhs, rhs, pc, aborted>>
             /\ call' = [op |-> "assemble_block", args |-> <<cl_a, cl_b, local_rhs>>,
                         ret |-> "true", id |-> call.id + 1]
             /\ emitted' = emitted \o new
             /\ UNCHANGED <<bpc_arg, nfinalized, rhs_writes>>

\* bool assemble(msh, cl, local_rhs, local_lhs)
assemble_cell(cl, local_rhs, local_lhs) ==
    IF invalid_state
    THEN throw_invalid("assemble_cell", <<cl, local_rhs, local_lhs>>)
    ELSE LET cl_ofs == offset(msh, cl) * basis_size
             new    == BlockTriplets(cl_ofs, cl_ofs, local_rhs)
             rows   == {RhsRow(cl_ofs, i) : i \in Idx(basis_size)}
         IN  /\ triplets' = push_back(triplets, new)
             /\ pc_temp' = DiagAccumulate(cl_ofs, cl_ofs, local_rhs)
             /\ rhs' = [r \in DOMAIN rhs |->
                          IF r \in rows
                          THEN <<local_lhs[CHOOSE i \in Idx(basis_size) :
                                               RhsRow(cl_ofs, i) = r]>>
                          ELSE rhs[r]]
             /\ UNCHANGED <<pc_triplets, sys_size, basis_size, build_pc,
                            lhs, pc, aborted>>
             /\ call' = [op |-> "assemble_cell", args |-> <<cl, local_rhs, local_lhs>>,
                         ret |-> "true", id |-> call.id + 1]
             /\ emitted' = emitted \o new
             /\ rhs_writes' = [r \in DOMAIN rhs_writes |->
                                 IF r \in rows THEN rhs_writes[r] + 1 ELSE rhs_writes[r]]
             /\ UNCHANGED <<bpc_arg, nfinalized>>

\* the assert written with >= in place of >
FailingRows_ge == {i \in DOMAIN pc_temp : ~(Abs(pc_temp[i]) >= AssertTol)}

\* the rows whose accumulated diagonal fails assert( std::abs(pc_temp[i]) > 1e-2 )
FailingRows == {i \in DOMAIN pc_temp : ~(Abs(pc_temp[i]) > AssertTol)}

\* pc_triplets.push_back({i, i, 1.0/pc_temp[i]}) for i = 0 .. upto-1
DiagTriplets(upto) == [k \in 1..upto |-> <<k - 1, k - 1, Reciprocal(pc_temp[k - 1])>>]

Min(S) == CHOOSE x \in S : \A y \in S : x <= y

\* void finalize()
finalize ==
    IF invalid_state
    THEN throw_invalid("finalize", <<>>)
    ELSE /\ lhs' = init_from_triplets(lhs, triplets)
         /\ triplets' = <<>>
         /\ UNCHANGED <<sys_size, basis_size, build_pc, rhs, pc_temp>>
         /\ UNCHANGED <<emitted, bpc_arg, rhs_writes>>
         /\ IF build_pc /\ FailingRows # {}
            THEN \* the assert of the first failing row ends the process
                 /\ pc_triplets' = pc_triplets \o DiagTriplets(Min(FailingRows))
                 /\ pc' = pc
                 /\ aborted' = TRUE
                 /\ nfinalized' = nfinalized
                 /\ call' = [op |-> "finalize", args |-> <<>>, ret |-> "assert_failed",
                             id |-> call.id + 1]
            ELSE /\ IF build_pc
                    THEN pc' = init_pc_from_triplets(pc,
                                   pc_triplets \o DiagTriplets(sys_size))
                    ELSE pc' = pc
                 /\ pc_triplets' = <<>>
                 /\ aborted' = FALSE
                 /\ nfinalized' = nfinalized + 1
                 /\ call' = [op |-> "finalize", args |-> <<>>, ret |-> "ok",
                             id |-> call.id + 1]

\* size_t system_size() const
system_size == sys_size

\* the solver's variables before the solution part is reached
solver_unstarted ==
    /\ geo = <<>> /\ eta_l = <<>>
    /\ cgp = <<>> /\ iter = 0 /\ rr = 0
    /\ sol = <<>> /\ ecl = 0 /\ loc_sol = <<>>
    /\ cell_rows = <<>>

(***************************************************************************)
(* A caller that makes any calls on one assembler, in any order.  A        *)
(* std::invalid_argument is caught and the caller goes on; a failed        *)
(* assert ends the process.                                                *)
(***************************************************************************)
Init ==
    /\ msh \in Meshes
    /\ assembler_default
    /\ call = [op |-> "assembler", args |-> <<>>, ret |-> "ok", id |-> 0]
    /\ emitted = <<>>
    /\ bpc_arg = <<>>
    /\ nfinalized = 0
    /\ rhs_writes = <<>>
    /\ ncalls = 0
    /\ driver = "caller" /\ cfg = <<>> /\ step = "caller"
    /\ tcl = 0 /\ fc = 0
    /\ K = <<>> /\ loc_rhs = <<>> /\ Atn = <<>> /\ fqps = <<>>
    /\ solver_unstarted

CallInitialize ==
    /\ ~aborted
    /\ ncalls < MaxCalls
    /\ \E degree \in Degrees, bpc \in BOOLEAN : initialize(degree, bpc)
    /\ ncalls' = ncalls + 1
    /\ UNCHANGED <<msh, drv_vars>>

\* the caller passes cells of the mesh and blocks of the size its basis has
CallerBasis == IF basis_size = 0 THEN 1 ELSE basis_size

CallAssembleBlock ==
    /\ ~aborted
    /\ ncalls < MaxCalls
    /\ \E cl_a \in Cells, cl_b \in Cells, local_rhs \in Blocks(CallerBasis) :
          assemble_block(cl_a, cl_b, local_rhs)
    /\ ncalls' = ncalls + 1
    /\ UNCHANGED <<msh, drv_vars>>

CallAssembleCell ==
    /\ ~aborted
    /\ ncalls < MaxCalls
    /\ \E cl \in Cells, local_rhs \in Blocks(CallerBasis),
          local_lhs \in Vectors(CallerBasis) :
          assemble_cell(cl, local_rhs, local_lhs)
    /\ ncalls' = ncalls + 1
    /\ UNCHANGED <<msh, drv_vars>>

CallFinalize ==
    /\ ~aborted
    /\ ncalls < MaxCalls
    /\ finalize
    /\ ncalls' = ncalls + 1
    /\ UNCHANGED <<msh, drv_vars>>

Next ==
    \/ CallInitialize
    \/ CallAssembleBlock
    \/ CallAssembleCell
    \/ CallFinalize

Spec == Init /\ [][Next]_vars

(***************************************************************************)
(* run_advection_reaction_solver: the assembly pass.                       *)
(*                                                                         *)
(* The basis, the quadrature rules, the normals and the advection field    *)
(* are inputs.  Basis values, beta.n, mu, eta and the source term are      *)
(* whole numbers; a quadrature weight is an even number of units, so that  *)
(* 0.5 * weight * x is the whole number (weight * x) \div 2.               *)
(***************************************************************************)

\* params::mu(pt): return 1.0
mu == 1

\* the values at a point of the basis functions of the cell, of those of the
\* neighbour, and of the derivatives of the cell's along beta
Phi(b)  == [i \in Idx(b) |-> i + 1]
Psi(b)  == [i \in Idx(b) |-> b - i]
DPhi(b) == [i \in Idx(b) |-> i]

\* beta.n at the two quadrature points of a face: inflow, mixed, outflow
FaceFlows == {<<-1, -1>>, <<-1, 1>>, <<0, 1>>}

\* yaourt::quadratures::integrate(msh, fc, 2*degree) with the basis evaluated:
\* per point the weight, dot(params::beta(ep), n), tbasis.eval(ep), nbasis.eval(ep)
FaceQuadratures(b) ==
    {<< [weight |-> 2, beta_nf |-> f[1], tphi |-> Phi(b), nphi |-> Psi(b)],
        [weight |-> 4, beta_nf |-> f[2], tphi |-> Psi(b), nphi |-> Phi(b)] >> :
       f \in FaceFlows}

\* yaourt::quadratures::integrate(msh, tcl, 2*degree) with the basis evaluated:
\* per point the weight, phi, dphi*params::beta(ep) and data::rhs(ep)
CellQuadratures(b) ==
    {<< [weight |-> 4, phi |-> Phi(b), dphi_beta |-> DPhi(b), rhs |-> f],
        [weight |-> 2, phi |-> Psi(b), dphi_beta |-> DPhi(b), rhs |-> 2] >> :
       f \in {1, 3}}

\* the configurations: part_001's dg_config has no use_upwinding, and eta is
\* read only with upwinding
Configs(d) ==
    {c \in [degree : Degrees, use_preconditioner : BOOLEAN,
            use_upwinding : BOOLEAN, eta : {1, 2}] :
        /\ d = "part_001" => ~c.use_upwinding
        /\ ~c.use_upwinding => c.eta = 1}

\* K += mu*weight*phi*trans(phi); K += weight*phi*trans(dphi*beta), over the points
RECURSIVE VolumeEntry(_, _, _)
VolumeEntry(qps, i, j) ==
    IF qps = <<>> THEN 0
    ELSE LET qp == Head(qps)
         IN  mu * qp.weight * qp.phi[i] * qp.phi[j]
             + qp.weight * qp.phi[i] * qp.dphi_beta[j]
             + VolumeEntry(Tail(qps), i, j)

\* loc_rhs += weight * data::rhs(ep) * phi, over the points
RECURSIVE SourceEntry(_, _)
SourceEntry(qps, i) ==
    IF qps = <<>> THEN 0
    ELSE LET qp == Head(qps)
         IN  qp.weight * qp.rhs * qp.phi[i] + SourceEntry(Tail(qps), i)

\* the upwind coefficient without the absolute value
fi_coeff_no_abs(beta_nf) ==
    IF driver = "part_000" /\ cfg.use_upwinding
    THEN beta_nf - cfg.eta * beta_nf
    ELSE beta_nf

\* fi_coeff: beta_nf - eta*|beta_nf| with upwinding (part_000 only), else beta_nf
fi_coeff(beta_nf) ==
    IF driver = "part_000" /\ cfg.use_upwinding
    THEN beta_nf - cfg.eta * Abs(beta_nf)
    ELSE beta_nf

\* the boundary coefficient with the sign of beta_nf wrong
beta_minus_wrong_sign(beta_nf) == (Abs(beta_nf) + beta_nf) \div 2

\* auto beta_minus = 0.5*(std::abs(beta_nf) - beta_nf)
beta_minus(beta_nf) == (Abs(beta_nf) - beta_nf) \div 2

\* what the loop over f_qps adds to Att(i, j)
RECURSIVE AttEntry(_, _, _, _)
AttEntry(qps, has_neighbour, i, j) ==
    IF qps = <<>> THEN 0
    ELSE LET fqp == Head(qps)
             term == IF has_neighbour
                     THEN -((fqp.weight * fi_coeff(fqp.beta_nf)
                               * fqp.tphi[i] * fqp.tphi[j]) \div 2)
                     ELSE IF fqp.beta_nf < 0
                          THEN fqp.weight * beta_minus(fqp.beta_nf)
                                 * fqp.tphi[i] * fqp.tphi[j]
                          ELSE 0
         IN  term + AttEntry(Tail(qps), has_neighbour, i, j)

\* what the loop over f_qps adds to Atn(i, j): a boundary point leaves the
\* loop body (continue) before the neighbour term
RECURSIVE AtnEntry(_, _, _, _)
AtnEntry(qps, has_neighbour, i, j) ==
    IF qps = <<>> THEN 0
    ELSE LET fqp == Head(qps)
             term == IF has_neighbour
                     THEN (fqp.weight * fi_coeff(fqp.beta_nf)
                             * fqp.tphi[i] * fqp.nphi[j]) \div 2
                     ELSE 0
         IN  term + AtnEntry(Tail(qps), has_neighbour, i, j)

\* K, Att and Atn after their quadrature loops
VolumeMatrix(b, qps) ==
    [i \in Idx(b) |-> [j \in Idx(b) |-> VolumeEntry(qps, i, j)]]

AttMatrix(b, qps, has_neighbour) ==
    [i \in Idx(b) |-> [j \in Idx(b) |-> AttEntry(qps, has_neighbour, i, j)]]

AtnMatrix(b, qps, has_neighbour) ==
    [i \in Idx(b) |-> [j \in Idx(b) |-> AtnEntry(qps, has_neighbour, i, j)]]

\* the face fc of cell tcl
Face == msh.faces[tcl][fc]

\* where the loops go after the face fc of cell tcl is done
AfterFace ==
    IF fc < Len(msh.faces[tcl])
    THEN step' = "face" /\ fc' = fc + 1 /\ tcl' = tcl
    ELSE step' = "assemble" /\ fc' = fc /\ tcl' = tcl

\* the meshes the mesher hands to the solver: one cell, or two cells whose
\* offsets are not their positions in msh.cells
DriverMeshes ==
    {m \in Meshes : m.ncells > 0 /\ (m.ncells > 1 => m.offset[0] # 0)}

DriverInit ==
    /\ msh \in DriverMeshes
    /\ assembler_default
    /\ call = [op |-> "assembler", args |-> <<>>, ret |-> "ok", id |-> 0]
    /\ emitted = <<>>
    /\ bpc_arg = <<>>
    /\ nfinalized = 0
    /\ rhs_writes = <<>>
    /\ ncalls = 0
    /\ driver \in {"part_000", "part_001"}
    /\ cfg \in Configs(driver)
    /\ step = "construct"
    /\ tcl = 0 /\ fc = 0
    /\ K = <<>> /\ loc_rhs = <<>> /\ Atn = <<>> /\ fqps = <<>>
    /\ solver_unstarted

\* assembler<mesh_type> assm(msh, degree, cfg.use_preconditioner)
DrvConstruct ==
    /\ step = "construct"
    /\ initialize(cfg.degree, cfg.use_preconditioner)
    /\ step' = "cell"
    /\ UNCHANGED <<msh, ncalls, driver, cfg, tcl, fc, K, loc_rhs, Atn, fqps>>
    /\ UNCHANGED <<sol_vars, cell_rows>>

\* the head of the loop body for tcl: K and loc_rhs from the cell quadrature
DrvCell ==
    /\ step = "cell"
    /\ \E qps \in CellQuadratures(basis_size) :
          /\ K' = VolumeMatrix(basis_size, qps)
          /\ loc_rhs' = [i \in Idx(basis_size) |-> SourceEntry(qps, i)]
    /\ step' = "face" /\ fc' = 1
    /\ UNCHANGED <<msh, asm_vars, call, hist_vars, ncalls, driver, cfg, tcl, Atn, fqps>>
    /\ UNCHANGED <<sol_vars, cell_rows>>

\* the face loop body up to assm.assemble(msh, tcl, tcl, Att)
DrvFace ==
    /\ step = "face"
    /\ \E qps \in FaceQuadratures(basis_size) :
          LET has_neighbour == Face.has_neighbour
              Att == AttMatrix(basis_size, qps, has_neighbour)
          IN  /\ fqps' = qps
              /\ Atn' = AtnMatrix(basis_size, qps, has_neighbour)
              /\ assemble_block(tcl, tcl, Att)
    /\ IF invalid_state
       THEN step' = "terminated" /\ UNCHANGED <<tcl, fc>>
       ELSE IF Face.has_neighbour
            THEN step' = "neighbour" /\ UNCHANGED <<tcl, fc>>
            ELSE AfterFace
    /\ UNCHANGED <<msh, ncalls, driver, cfg, K, loc_rhs>>
    /\ UNCHANGED <<sol_vars, cell_rows>>

\* if (has_neighbour) assm.assemble(msh, tcl, ncl, Atn)
DrvNeighbour ==
    /\ step = "neighbour"
    /\ assemble_block(tcl, Face.ncl, Atn)
    /\ AfterFace
    /\ UNCHANGED <<msh, ncalls, driver, cfg, K, loc_rhs, Atn, fqps>>
    /\ UNCHANGED <<sol_vars, cell_rows>>

\* assm.assemble(msh, tcl, K, loc_rhs), then the next cell
DrvAssemble ==
    /\ step = "assemble"
    /\ assemble_cell(tcl, K, loc_rhs)
    /\ IF tcl + 1 < msh.ncells
       THEN step' = "cell" /\ tcl' = tcl + 1
       ELSE step' = "finalize" /\ tcl' = tcl
    /\ cell_rows' = cell_rows @@
                       (tcl :> {r \in DOMAIN rhs : rhs_writes'[r] # rhs_writes[r]})
    /\ UNCHANGED <<msh, ncalls, driver, cfg, fc, K, loc_rhs, Atn, fqps, sol_vars>>

\* assm.finalize()
DrvFinalize ==
    /\ step = "finalize"
    /\ finalize
    /\ step' = IF build_pc /\ FailingRows # {} THEN "aborted" ELSE "solve"
    /\ UNCHANGED <<msh, ncalls, driver, cfg, tcl, fc, K, loc_rhs, Atn, fqps>>
    /\ UNCHANGED <<sol_vars, cell_rows>>

DriverNext ==
    \/ DrvConstruct
    \/ DrvCell
    \/ DrvFace
    \/ DrvNeighbour
    \/ DrvAssemble
    \/ DrvFinalize

DriverSpec == DriverInit /\ [][DriverNext]_vars

(***************************************************************************)
(* The solution part and the error pass of the solvers.                    *)
(*                                                                         *)
(* conjugated_gradient is the iterative solver of core/solvers.hpp: its    *)
(* loop is the one the specification describes.  A relative residual is a  *)
(* whole number of units of 1e-8; the coefficient k of the solution is     *)
(* carried as <<k>>, so that an entry read shows where it was read from.   *)
(***************************************************************************)

\* cgp.rr_max = 10000
rr_max == 10000

\* cgp.rr_tol = 1e-8, in units of 1e-8
rr_tol == 1

\* the relative residuals an iteration can end with: below, at or above 1e-8
Residuals == {0, 1, 3}

\* an iteration budget of the system size
max_iter_short(n) == n

\* cgp.max_iter = 2*assm.system_size()
max_iter(n) == 2 * n

\* the flag set by every solver
use_normal_eqns_everywhere == <<TRUE>>

\* cgp.use_normal_eqns = true in run_advection_reaction_solver; no
\* assignment in run_diffusion_solver
use_normal_eqns == IF driver = "diffusion" THEN <<>> ELSE <<TRUE>>

\* blaze::DynamicVector<T> sol(assm.system_size()) and the conjugated_gradient_params
DrvConfigure ==
    /\ step = "solve"
    /\ sol' = [k \in 0..(system_size - 1) |-> <<>>]
    /\ cgp' = [verbose         |-> <<TRUE>>,
               rr_max          |-> <<rr_max>>,
               rr_tol          |-> <<rr_tol>>,
               max_iter        |-> <<max_iter(system_size)>>,
               use_normal_eqns |-> use_normal_eqns]
    /\ step' = "cg_call"
    /\ UNCHANGED <<msh, asm_vars, call, hist_vars, ncalls, driver, cfg, tcl, fc,
                   K, loc_rhs, Atn, fqps, geo, eta_l, iter, rr, ecl, loc_sol,
                   cell_rows>>

\* the arguments of conjugated_gradient(cgp, assm.lhs, assm.rhs, sol)
cg_args == [cgp |-> cgp, A |-> lhs, b |-> rhs, x |-> sol]

\* conjugated_gradient is entered: no iteration made, the residual of the
\* starting iterate
CgCall ==
    /\ step = "cg_call"
    /\ call' = [op |-> "conjugated_gradient", args |-> cg_args, ret |-> "running",
                id |-> call.id + 1]
    /\ iter' = 0
    /\ rr' \in Residuals
    /\ step' = "cg"
    /\ UNCHANGED <<msh, asm_vars, hist_vars, ncalls, driver, cfg, tcl, fc,
                   K, loc_rhs, Atn, fqps, geo, eta_l, cgp, sol, ecl, loc_sol,
                   cell_rows>>

\* the loop of conjugated_gradient goes on
cg_continues == rr >= call.args.cgp.rr_tol[1] /\ iter < call.args.cgp.max_iter[1]

\* one iteration: a new iterate and its relative residual
CgIterate ==
    /\ step = "cg"
    /\ cg_continues
    /\ iter' = iter + 1
    /\ rr' \in Residuals
    /\ UNCHANGED <<msh, asm_vars, call, hist_vars, ncalls, driver, cfg, step, tcl,
                   fc, K, loc_rhs, Atn, fqps, geo, eta_l, cgp, sol, ecl, loc_sol,
                   cell_rows>>

\* the loop is left and the current iterate is returned in sol
CgReturn ==
    /\ step = "cg"
    /\ ~cg_continues
    /\ sol' = [k \in DOMAIN sol |-> <<k>>]
    /\ call' = [call EXCEPT !.ret = "returned"]
    /\ step' = "error" /\ ecl' = 0
    /\ UNCHANGED <<msh, asm_vars, hist_vars, ncalls, driver, cfg, tcl, fc,
                   K, loc_rhs, Atn, fqps, geo, eta_l, cgp, iter, rr, loc_sol,
                   cell_rows>>

\* an index that leaves out the block size
ErrIndex_no_block(bsize, ofs, i) == ofs + i

\* sol[basis_size * ofs + i]
ErrIndex(bsize, ofs, i) == bsize * ofs + i

\* the head of the loop body of the error pass for the cell ecl: basis.size(),
\* offset(msh, cl) and loc_sol
DrvError ==
    /\ step = "error"
    /\ LET bsize == scalar_basis_size(cfg.degree, MeshDim)
           ofs   == offset(msh, ecl)
       IN  loc_sol' = [i \in Idx(bsize) |-> sol[ErrIndex(bsize, ofs, i)]]
    /\ IF ecl + 1 < msh.ncells
       THEN step' = "error" /\ ecl' = ecl + 1
       ELSE step' = "done" /\ ecl' = ecl
    /\ UNCHANGED <<msh, asm_vars, call, hist_vars, ncalls, driver, cfg, tcl, fc,
                   K, loc_rhs, Atn, fqps, geo, eta_l, cgp, iter, rr, sol,
                   cell_rows>>

\* the normals and face diameters of the meshes
Normals == {<<1, 0>>, <<-1, 2>>}
Diams == {1, 2}

\* the geometry of a run: beta.n at the points of the faces (the advection
\* solvers), the normal of the faces as cell 0 sees it and the face
\* diameter (the diffusion solver)
Geometries(d) ==
    {g \in [flow : FaceFlows, n : Normals, diam : Diams] :
        IF d = "diffusion" THEN g.flow = <<-1, 1>>
        ELSE g.n = <<1, 0>> /\ g.diam = 1}

(***************************************************************************)
(* run_diffusion_solver: the assembly pass.  Its constructor call, its     *)
(* assemble calls and its finalize call are those of the advection-        *)
(* reaction solvers.  A basis value and a gradient component are whole     *)
(* numbers, a face diameter divides every quadrature weight.               *)
(***************************************************************************)
DiffusionDegrees == {1, 2}

\* data::rhs at the first quadrature point of a cell
CellSource(c) == IF c = 0 THEN 1 ELSE 3

\* data::dirichlet(pt): return 0.0
dirichlet == 0

Dot(u, v) == u[1] * v[1] + u[2] * v[2]

\* tbasis.eval(ep) and tbasis.eval_grads(ep) for the basis of cell c at the
\* point q: the value and the gradient of each basis function
Val(b, c, q)  == [i \in Idx(b) |-> IF i = 0 THEN 1 ELSE i + c + q]
Grad(b, c, q) == [i \in Idx(b) |-> IF i = 0 THEN <<0, 0>> ELSE <<i + c, q - i>>]

\* dg2d::quadratures::integrate(msh, tcl, 2*degree) with the basis evaluated
DifCellQuadrature(b, c) ==
    << [weight |-> 4, phi |-> Val(b, c, 1), dphi |-> Grad(b, c, 1),
        rhs |-> CellSource(c)],
       [weight |-> 2, phi |-> Val(b, c, 2), dphi |-> Grad(b, c, 2), rhs |-> 2] >>

\* normal(msh, tcl, fc): the two cells of a face see opposite normals
FaceNormal(c) == IF c = 0 THEN geo.n ELSE <<-geo.n[1], -geo.n[2]>>

\* dg2d::quadratures::integrate(msh, fc, 2*degree) with the bases of the cell
\* c and of the neighbour nc evaluated: per point the weight, tphi, tdphi*n,
\* nphi and ndphi*n
DifFaceQuadrature(b, c, nc) ==
    LET n == FaceNormal(c)
        pt(q, w) == [weight |-> w,
                     tphi |-> Val(b, c, q),
                     tdn  |-> [i \in Idx(b) |-> Dot(Grad(b, c, q)[i], n)],
                     nphi |-> Val(b, nc, q),
                     ndn  |-> [i \in Idx(b) |-> Dot(Grad(b, nc, q)[i], n)]]
    IN  << pt(3, 2), pt(4, 4) >>

\* K += weight * dphi * trans(dphi), over the points
RECURSIVE StiffnessEntry(_, _, _)
StiffnessEntry(qps, i, j) ==
    IF qps = <<>> THEN 0
    ELSE LET qp == Head(qps)
         IN  qp.weight * Dot(qp.dphi[i], qp.dphi[j])
             + StiffnessEntry(Tail(qps), i, j)

\* a penalty linear in the degree
eta_penalty_linear(degree, eta) == 3 * degree * eta

\* T eta = 3*degree*degree*cfg.eta
eta_penalty(degree, eta) == 3 * degree * degree * eta

\* auto eta_l = eta / diameter(msh, fc)
face_penalty(degree, eta, diam) == [num |-> eta_penalty(degree, eta), den |-> diam]

\* weight * eta_l * x
Penalized(weight, el, x) == (weight * el.num * x) \div el.den

\* what the loop over f_qps adds to Att(i, j)
RECURSIVE DifAttEntry(_, _, _, _, _)
DifAttEntry(qps, has_neighbour, el, i, j) ==
    IF qps = <<>> THEN 0
    ELSE LET fqp == Head(qps)
             term == IF has_neighbour
                     THEN Penalized(fqp.weight, el, fqp.tphi[i] * fqp.tphi[j])
                          - (fqp.weight * fqp.tphi[i] * fqp.tdn[j]) \div 2
                          - (fqp.weight * fqp.tdn[i] * fqp.tphi[j]) \div 2
                     ELSE Penalized(fqp.weight, el, fqp.tphi[i] * fqp.tphi[j])
                          - fqp.weight * fqp.tphi[i] * fqp.tdn[j]
                          - fqp.weight * fqp.tdn[i] * fqp.tphi[j]
         IN  term + DifAttEntry(Tail(qps), has_neighbour, el, i, j)

\* the neighbour block with the sign of its last term wrong
RECURSIVE DifAtnEntry_wrong_sign(_, _, _, _, _)
DifAtnEntry_wrong_sign(qps, has_neighbour, el, i, j) ==
    IF qps = <<>> THEN 0
    ELSE LET fqp == Head(qps)
             term == IF has_neighbour
                     THEN - Penalized(fqp.weight, el, fqp.tphi[i] * fqp.nphi[j])
                          - (fqp.weight * fqp.tphi[i] * fqp.ndn[j]) \div 2
                          - (fqp.weight * fqp.tdn[i] * fqp.nphi[j]) \div 2
                     ELSE 0
         IN  term + DifAtnEntry_wrong_sign(Tail(qps), has_neighbour, el, i, j)

\* what the loop over f_qps adds to Atn(i, j): a boundary point leaves the
\* loop body (continue) before the neighbour terms
RECURSIVE DifAtnEntry(_, _, _, _, _)
DifAtnEntry(qps, has_neighbour, el, i, j) ==
    IF qps = <<>> THEN 0
    ELSE LET fqp == Head(qps)
             term == IF has_neighbour
                     THEN - Penalized(fqp.weight, el, fqp.tphi[i] * fqp.nphi[j])
                          - (fqp.weight * fqp.tphi[i] * fqp.ndn[j]) \div 2
                          + (fqp.weight * fqp.tdn[i] * fqp.nphi[j]) \div 2
                     ELSE 0
         IN  term + DifAtnEntry(Tail(qps), has_neighbour, el, i, j)

\* what the loop over f_qps adds to loc_rhs(i) on a boundary face
RECURSIVE DifBoundaryRhs(_, _, _, _)
DifBoundaryRhs(qps, has_neighbour, el, i) ==
    IF qps = <<>> THEN 0
    ELSE LET fqp == Head(qps)
             term == IF has_neighbour THEN 0
                     ELSE - fqp.weight * dirichlet * fqp.tdn[i]
                          + Penalized(fqp.weight, el, dirichlet * fqp.tphi[i])
         IN  term + DifBoundaryRhs(Tail(qps), has_neighbour, el, i)

\* the head of the loop body for tcl: K and loc_rhs from the cell quadrature
DifCell ==
    /\ driver = "diffusion"
    /\ step = "cell"
    /\ LET qps == DifCellQuadrature(basis_size, tcl)
       IN  /\ K' = [i \in Idx(basis_size) |->
                      [j \in Idx(basis_size) |-> StiffnessEntry(qps, i, j)]]
           /\ loc_rhs' = [i \in Idx(basis_size) |-> SourceEntry(qps, i)]
    /\ step' = "face" /\ fc' = 1
    /\ UNCHANGED <<msh, asm_vars, call, hist_vars, ncalls, driver, cfg, tcl, Atn, fqps>>
    /\ UNCHANGED <<sol_vars, cell_rows>>

\* the face loop body up to assm.assemble(msh, tcl, tcl, Att)
DifFace ==
    /\ driver = "diffusion"
    /\ step = "face"
    /\ LET has_neighbour == Face.has_neighbour
           el  == face_penalty(cfg.degree, cfg.eta, geo.diam)
           qps == DifFaceQuadrature(basis_size, tcl, Face.ncl)
           Att == [i \in Idx(basis_size) |-> [j \in Idx(basis_size) |->
                     DifAttEntry(qps, has_neighbour, el, i, j)]]
       IN  /\ eta_l' = el
           /\ fqps' = qps
           /\ Atn' = [i \in Idx(basis_size) |-> [j \in Idx(basis_size) |->
                        DifAtnEntry(qps, has_neighbour, el, i, j)]]
           /\ loc_rhs' = [i \in Idx(basis_size) |->
                            loc_rhs[i] + DifBoundaryRhs(qps, has_neighbour, el, i)]
           /\ assemble_block(tcl, tcl, Att)
    /\ IF invalid_state
       THEN step' = "terminated" /\ UNCHANGED <<tcl, fc>>
       ELSE IF Face.has_neighbour
            THEN step' = "neighbour" /\ UNCHANGED <<tcl, fc>>
            ELSE AfterFace
    /\ UNCHANGED <<msh, ncalls, driver, cfg, K>>
    /\ UNCHANGED <<geo, cgp, iter, rr, sol, ecl, loc_sol, cell_rows>>

\* the configurations of run_diffusion_solver: eta is always read
DiffusionConfigs ==
    [degree : DiffusionDegrees, use_preconditioner : BOOLEAN,
     use_upwinding : {FALSE}, eta : {1, 2}]

SolveInit ==
    /\ msh \in DriverMeshes
    /\ assembler_default
    /\ call = [op |-> "assembler", args |-> <<>>, ret |-> "ok", id |-> 0]
    /\ emitted = <<>>
    /\ bpc_arg = <<>>
    /\ nfinalized = 0
    /\ rhs_writes = <<>>
    /\ ncalls = 0
    /\ driver \in {"part_000", "part_001", "diffusion"}
    /\ cfg \in IF driver = "diffusion" THEN DiffusionConfigs ELSE Configs(driver)
    /\ geo \in Geometries(driver)
    /\ step = "construct"
    /\ tcl = 0 /\ fc = 0
    /\ K = <<>> /\ loc_rhs = <<>> /\ Atn = <<>> /\ fqps = <<>>
    /\ eta_l = <<>>
    /\ cgp = <<>> /\ iter = 0 /\ rr = 0
    /\ sol = <<>> /\ ecl = 0 /\ loc_sol = <<>>
    /\ cell_rows = <<>>

\* the cell loop head of the advection-reaction solvers on the run's data:
\* the source term differs between the cells
RunCell ==
    /\ driver # "diffusion"
    /\ DrvCell
    /\ \E qps \in CellQuadratures(basis_size) :
          /\ qps[1].rhs = CellSource(tcl)
          /\ loc_rhs' = [i \in Idx(basis_size) |-> SourceEntry(qps, i)]

\* the face loop body of the advection-reaction solvers on the run's geometry
RunFace ==
    /\ driver # "diffusion"
    /\ DrvFace
    /\ <<fqps'[1].beta_nf, fqps'[2].beta_nf>> = geo.flow

SolveNext ==
    \/ DrvConstruct
    \/ RunCell
    \/ RunFace
    \/ DifCell
    \/ DifFace
    \/ DrvNeighbour
    \/ DrvAssemble
    \/ DrvFinalize
    \/ DrvConfigure
    \/ CgCall
    \/ CgIterate
    \/ CgReturn
    \/ DrvError

SolveSpec == SolveInit /\ [][SolveNext]_vars

\* a run is one thread of straight-line code without suspension points:
\* whenever the program has a next step, it takes it
FairSolveSpec == SolveSpec /\ WF_vars(SolveNext)

(***************************************************************************)
(* Properties of the assembler under the free caller (Spec).               *)
(***************************************************************************)
Called(op) == call'.id # call.id /\ call'.op = op

Initialized == bpc_arg # <<>>

Rows == 0..(sys_size - 1)

\* C1: assemble(owner_cell, other_cell, block) on an initialized assembler
\* returns true, keeps the entries already pending, and appends exactly
\* basis_size^2 entries: for every (i, j) exactly one with row
\* offset(owner)*basis_size + i, column offset(other)*basis_size + j and
\* value block(i, j).
C1_AssembleBlockAppends ==
    [][ (Initialized /\ Called("assemble_block")) =>
          LET owner == call'.args[1]
              other == call'.args[2]
              block == call'.args[3]
              old   == Len(triplets)
              added == (old + 1)..Len(triplets')
          IN  /\ call'.ret = "true"
              /\ SubSeq(triplets', 1, old) = triplets
              /\ Cardinality(added) = basis_size * basis_size
              /\ \A i, j \in Idx(basis_size) :
                    Cardinality({k \in added : triplets'[k] =
                        << offset(msh, owner) * basis_size + i,
                           offset(msh, other) * basis_size + j,
                           block[i][j] >>}) = 1
      ]_vars

\* C1 witness: a block was assembled for two different cells with a basis of 3 functions
C1_Witness ==
    /\ call.op = "assemble_block" /\ call.ret = "true"
    /\ call.args[1] # call.args[2]
    /\ basis_size = 3
    /\ Len(triplets) = 9

\* C2: whenever finalize() has completed, for every coordinate (r, c) lhs(r, c)
\* is the sum of the values of all entries emitted at (r, c) by the assemble
\* calls made since initialize().
C2_LhsIsSumOfEmitted ==
    (Initialized /\ call.op = "finalize" /\ call.ret = "ok") =>
        \A r, c \in Rows : At(lhs, r, c) = SumAt(emitted, r, c)

\* C3: on an assembler that was never initialized, either assemble overload
\* and finalize() fail with invalid_argument and leave the entry list, lhs,
\* rhs, pc and the diagonal accumulator as they were.
C3_UninitializedRejected ==
    [][ (~Initialized /\ (\/ Called("assemble_block")
                          \/ Called("assemble_cell")
                          \/ Called("finalize"))) =>
          /\ sys_size = 0 /\ basis_size = 0
          /\ call'.ret = "invalid_argument"
          /\ UNCHANGED <<triplets, lhs, rhs, pc, pc_temp>>
      ]_vars

\* C3 witness: an assemble call on the default-constructed assembler was rejected
C3_Witness ==
    /\ ~Initialized
    /\ call.op = "assemble_cell"
    /\ call.ret = "invalid_argument"
    /\ sys_size = 0 /\ basis_size = 0

\* C4: once finalize() has completed, every later assemble call is rejected
\* as invalid state and no later assemble or finalize call changes lhs, rhs
\* or pc.
C4_FinalizedIsReadOnly ==
    [][ (nfinalized > 0 /\ call'.id # call.id /\ call'.op # "initialize") =>
          /\ call'.op \in {"assemble_block", "assemble_cell"} =>
                call'.ret = "invalid_argument"
          /\ UNCHANGED <<lhs, rhs, pc>>
      ]_vars

\* C5: a second finalize() that directly follows a completed finalize() is
\* either rejected as invalid state or leaves lhs holding every emitted
\* entry twice.
C5_SecondFinalizeRejectedOrDoubled ==
    [][ (call.op = "finalize" /\ call.ret = "ok" /\ nfinalized = 1
         /\ Called("finalize")) =>
          \/ call'.ret = "invalid_argument"
          \/ \A r, c \in 0..(sys_size - 1) :
                At(lhs', r, c) = 2 * SumAt(emitted, r, c)
      ]_vars

\* C6: for an assembler initialized with bpc == false no assemble call
\* changes pc_temp, and finalize() builds no preconditioner entry and
\* evaluates no diagonal-magnitude assert.
C6_NoPreconditionerUnlessRequested ==
    [][ (bpc_arg = <<FALSE>> /\ call'.id # call.id /\ call'.op # "initialize") =>
          /\ pc_temp' = pc_temp
          /\ pc' = pc
          /\ pc_triplets' = pc_triplets
          /\ call'.ret # "assert_failed"
      ]_vars

\* C7: whenever finalize() has completed on an assembler initialized with
\* bpc == true, pc is diagonal and every pc(i, i), i in [0, N), times the sum
\* of the values emitted at (i, i) since initialize() is 1, and so is
\* pc(i, i) times lhs(i, i).
C7_PcIsReciprocalOfDiagonal ==
    (bpc_arg = <<TRUE>> /\ call.op = "finalize" /\ call.ret = "ok") =>
        /\ pc.n = sys_size
        /\ \A p \in DOMAIN pc.e : p[1] = p[2]
        /\ \A i \in Rows :
              /\ <<i, i>> \in DOMAIN pc.e
              /\ pc.e[<<i, i>>].num * SumAt(emitted, i, i) = pc.e[<<i, i>>].den * Scale
              /\ pc.e[<<i, i>>].num * At(lhs, i, i) = pc.e[<<i, i>>].den * Scale

\* C8: when preconditioning was requested and some accumulated diagonal sum
\* is at most 1e-2 in magnitude, finalize() ends in the failed assert with pc
\* untouched (no entry built, none filled in); a finalize() that completes
\* has found every diagonal sum above the threshold.
C8_NearZeroDiagonalAsserts ==
    [][ (bpc_arg = <<TRUE>> /\ ~invalid_state /\ Called("finalize")) =>
          /\ (\E i \in DOMAIN pc_temp : Abs(pc_temp[i]) <= AssertTol) =>
                /\ call'.ret = "assert_failed"
                /\ aborted'
                /\ pc' = pc
          /\ call'.ret = "ok" =>
                \A i \in DOMAIN pc_temp : Abs(pc_temp[i]) > AssertTol
      ]_vars

\* C8 witness: finalize() was stopped by the assert on a diagonal sum that
\* is near zero without being zero
C8_Witness ==
    /\ bpc_arg = <<TRUE>>
    /\ call.op = "finalize" /\ call.ret = "assert_failed"
    /\ aborted
    /\ \E i \in DOMAIN pc_temp : Abs(pc_temp[i]) = AssertTol

\* C18: on an initialized assembler system_size() is basis_size * num_cells
\* = N, every pending entry has its row and its column in [0, N), and an
\* assemble call writes rhs and updates the diagonal accumulator only at
\* indices in [0, N).
C18_IndicesInRange ==
    /\ [](Initialized =>
            /\ system_size = basis_size * msh.ncells
            /\ DOMAIN rhs = Rows /\ DOMAIN pc_temp = Rows
            /\ \A k \in DOMAIN triplets :
                  triplets[k][1] \in Rows /\ triplets[k][2] \in Rows)
    /\ [][ (Initialized /\ (Called("assemble_block") \/ Called("assemble_cell"))) =>
             /\ DOMAIN rhs' = Rows /\ DOMAIN pc_temp' = Rows
             /\ \A k \in (Len(triplets) + 1)..Len(triplets') :
                   triplets'[k][1] \in Rows /\ triplets'[k][2] \in Rows
         ]_vars

\* C19: initialize() leaves no pending entry and no diagonal sum behind, and
\* a finalize() that directly follows an initialize() yields an lhs without
\* a nonzero entry.
C19_InitializeResets ==
    /\ [][ Called("initialize") =>
             /\ triplets' = <<>>
             /\ \A i \in DOMAIN pc_temp' : pc_temp'[i] = 0
         ]_vars
    /\ [][ (call.op = "initialize" /\ ~invalid_state /\ Called("finalize")) =>
             \A p \in DOMAIN lhs'.e : lhs'.e[p] = 0
         ]_vars

(***************************************************************************)
(* Properties of one assembly pass of the solver (DriverSpec).             *)
(***************************************************************************)
\* C9: in one assembly pass the two-cell assemble overload never writes rhs;
\* assemble(cell, matrix, vector) sets rhs[offset(cell)*basis_size + i] to
\* the vector's entry i for every i, whatever rhs held, and writes no other
\* row; after the pass every row in [0, N) has been written exactly once.
C9_RhsWrittenOncePerRow ==
    /\ [](step \in {"finalize", "solve", "aborted"} =>
             \A r \in Rows : rhs_writes[r] = 1 /\ rhs[r] # <<>>)
    /\ [][ Called("assemble_block") => rhs' = rhs /\ rhs_writes' = rhs_writes ]_vars
    /\ [][ Called("assemble_cell") =>
             LET cl  == call'.args[1]
                 vec == call'.args[3]
                 ofs == offset(msh, cl) * basis_size
             IN  /\ call'.args[1] = tcl
                 /\ \A r \in Rows :
                       IF r - ofs \in Idx(basis_size)
                       THEN rhs'[r] = <<vec[r - ofs]>>
                            /\ rhs_writes'[r] = rhs_writes[r] + 1
                       ELSE rhs'[r] = rhs[r]
                            /\ rhs_writes'[r] = rhs_writes[r]
         ]_vars

\* C9 witness: the pass over a two-cell mesh with permuted offsets and
\* different source vectors for the two cells is over; every row of rhs was
\* written once, the last cell's rows holding the last cell's vector
C9_Witness ==
    /\ step = "finalize"
    /\ msh.ncells = 2 /\ basis_size = 3
    /\ msh.offset[0] = 1
    /\ \A r \in Rows : rhs_writes[r] = 1 /\ rhs[r] # <<>>
    /\ rhs[0] = <<loc_rhs[0]>>
    /\ rhs[3] # rhs[0]

\* the sum over the points of qps with beta.n < 0 of weight*|beta.n|*phi_i*phi_j
InflowSum(qps, i, j) ==
    LET term == [q \in DOMAIN qps |->
                    <<q, q, qps[q].weight * Abs(qps[q].beta_nf)
                              * qps[q].tphi[i] * qps[q].tphi[j]>>]
    IN  SumValues(term, {q \in DOMAIN qps : qps[q].beta_nf < 0})

\* C10: the block the solver assembles for a boundary face is the cell's
\* self-block and holds the sum over the face's points with beta.n < 0 of
\* weight*|beta.n|*phi*phi^T (nothing from a point with beta.n >= 0, so the
\* zero block when no point has inflow); the solver goes on to the next face
\* without a neighbour block, and a block for two different cells is only
\* ever assembled for an interior face, with its neighbour.
C10_BoundaryFaceInflowOnly ==
    /\ [][ (step = "face" /\ ~Face.has_neighbour /\ Called("assemble_block")) =>
             LET Att == call'.args[3]
             IN  /\ call'.args[1] = tcl /\ call'.args[2] = tcl
                 /\ \A i, j \in Idx(basis_size) :
                       Att[i][j] = InflowSum(fqps', i, j)
                 /\ (\A q \in DOMAIN fqps' : fqps'[q].beta_nf >= 0) =>
                       \A i, j \in Idx(basis_size) : Att[i][j] = 0
                 /\ step' # "neighbour"
         ]_vars
    /\ [][ (Called("assemble_block") /\ call'.args[1] # call'.args[2]) =>
             /\ step = "neighbour"
             /\ Face.has_neighbour
             /\ call'.args[1] = tcl /\ call'.args[2] = Face.ncl
         ]_vars

\* C10 witness: the last face of a cell, a boundary face with an inflow point
\* and an outflow point, has just been assembled with a nonzero block
C10_Witness ==
    /\ step = "assemble"
    /\ ~Face.has_neighbour
    /\ call.op = "assemble_block"
    /\ basis_size = 3
    /\ fqps[1].beta_nf < 0 /\ fqps[2].beta_nf > 0
    /\ call.args[3][0][1] = fqps[1].weight * fqps[1].tphi[0] * fqps[1].tphi[1]

\* the flux coefficient of a point with normal speed bn: bn - eta*|bn| with
\* upwinding, bn otherwise
FluxCoeff(bn) == IF cfg.use_upwinding THEN bn - cfg.eta * Abs(bn) ELSE bn

\* the sums over the points of qps of weight*coeff*phi_i*phi_j and of
\* weight*coeff*phi_i*psi_j
SelfFluxSum(qps, i, j) ==
    LET term == [q \in DOMAIN qps |->
                    <<q, q, qps[q].weight * FluxCoeff(qps[q].beta_nf)
                              * qps[q].tphi[i] * qps[q].tphi[j]>>]
    IN  SumValues(term, DOMAIN qps)

NeighbourFluxSum(qps, i, j) ==
    LET term == [q \in DOMAIN qps |->
                    <<q, q, qps[q].weight * FluxCoeff(qps[q].beta_nf)
                              * qps[q].tphi[i] * qps[q].nphi[j]>>]
    IN  SumValues(term, DOMAIN qps)

\* C13: for an interior face the self-block the solver assembles is the sum
\* over the face's points of -0.5*weight*coeff*phi*phi^T and the neighbour
\* block it assembles next, at (rows of the cell, columns of the neighbour),
\* is the sum of +0.5*weight*coeff*phi*psi^T, with coeff = beta.n -
\* eta*|beta.n| when upwinding is enabled and coeff = beta.n otherwise.
C13_InteriorFaceFlux ==
    /\ [][ (step = "face" /\ Face.has_neighbour /\ Called("assemble_block")) =>
             LET Att == call'.args[3]
             IN  /\ call'.args[1] = tcl /\ call'.args[2] = tcl
                 /\ step' = "neighbour"
                 /\ \A i, j \in Idx(basis_size) :
                       /\ 2 * Att[i][j] = -SelfFluxSum(fqps', i, j)
                       /\ 2 * Atn'[i][j] = NeighbourFluxSum(fqps', i, j)
         ]_vars
    /\ [][ (step = "neighbour" /\ Called("assemble_block")) =>
             /\ call'.args[1] = tcl /\ call'.args[2] = Face.ncl
             /\ call'.args[3] = Atn
         ]_vars

\* C13 witness: the neighbour block of an interior face with an inflow and an
\* outflow point has just been assembled, with upwinding and eta = 2
C13_Witness ==
    /\ driver = "part_000"
    /\ cfg.use_upwinding /\ cfg.eta = 2
    /\ basis_size = 3
    /\ call.op = "assemble_block" /\ call.args[1] # call.args[2]
    /\ fqps[1].beta_nf < 0 /\ fqps[2].beta_nf > 0
    /\ call.args[3] = Atn
    /\ 2 * Atn[0][1] = fqps[1].weight * (-3) * fqps[1].tphi[0] * fqps[1].nphi[1]
                       + fqps[2].weight * (-1) * fqps[2].tphi[0] * fqps[2].nphi[1]

(***************************************************************************)
(* Properties of a whole run of a solver (SolveSpec).                      *)
(***************************************************************************)

\* C11: when the configuration enables preconditioning, the call of the
\* iterative solver is given the preconditioner pc that finalize() built;
\* when it does not, the call is given no preconditioner.
C11_SolverGivenPreconditioner ==
    call.op = "conjugated_gradient" =>
        IF cfg.use_preconditioner
        THEN "pc" \in DOMAIN call.args /\ call.args.pc = pc
        ELSE "pc" \notin DOMAIN call.args

\* C14 as claimed: the face penalty of the diffusion solver is eta_local =
\* eta * p^2 / diam(face), eta the configured penalty and p the degree.
C14_FacePenalty ==
    eta_l # <<>> =>
        eta_l.num * geo.diam = cfg.eta * cfg.degree * cfg.degree * eta_l.den

\* C14 as amended: on every face the diffusion solver integrates, the face
\* penalty is eta_local = 3 * eta * p^2 / diam(face), and it is the penalty
\* of the self-block: for the constant basis function the entry Att(0, 0) is
\* eta_local times the sum of the face's quadrature weights.
C14_FacePenaltyTripled ==
    [][ (driver = "diffusion" /\ step = "face" /\ Called("assemble_block")) =>
          /\ eta_l'.den = geo.diam
          /\ eta_l'.num * geo.diam
                = 3 * cfg.eta * cfg.degree * cfg.degree * eta_l'.den
          /\ call'.args[3][0][0] * eta_l'.den
                = (fqps'[1].weight + fqps'[2].weight) * eta_l'.num
      ]_vars

\* C14 witness: a face was integrated with degree 2, eta = 2 and diameter 2
C14_Witness ==
    /\ driver = "diffusion"
    /\ cfg.degree = 2 /\ cfg.eta = 2 /\ geo.diam = 2
    /\ eta_l = [num |-> 24, den |-> 2]
    /\ call.op = "assemble_block"
    /\ call.args[3][0][0] = 72

\* the number of entries emitted with the value v at row r and column c
Emitted(r, c, v) == Cardinality({k \in DOMAIN emitted : emitted[k] = <<r, c, v>>})

\* C15: every self-block the diffusion solver assembles for a face is
\* symmetric, and once both cells of the interior face have assembled their
\* neighbour block, the block at (rows of t, columns of n) is the transpose
\* of the block at (rows of n, columns of t); with the symmetric volume
\* blocks, the entries emitted at (r, c) are those emitted at (c, r).
C15_DiffusionSymmetric ==
    /\ [][ (driver = "diffusion" /\ step = "face" /\ Called("assemble_block")) =>
             \A i, j \in Idx(basis_size) :
                call'.args[3][i][j] = call'.args[3][j][i]
         ]_vars
    /\ []((driver = "diffusion" /\ step = "finalize") =>
             /\ \A t \in Cells : \A i, j \in Idx(basis_size) :
                   LET n == msh.faces[t][IF t = 0 THEN 2 ELSE 1].ncl
                       r == offset(msh, t) * basis_size + i
                       c == offset(msh, n) * basis_size + j
                   IN  n # t => SumAt(emitted, r, c) = SumAt(emitted, c, r)
             /\ \A k \in DOMAIN emitted :
                   Emitted(emitted[k][1], emitted[k][2], emitted[k][3])
                     = Emitted(emitted[k][2], emitted[k][1], emitted[k][3]))

\* C15 witness: both cells of a two-cell mesh were assembled with degree 1,
\* and the neighbour block at (rows 0..2, columns 3..5) is not itself
\* symmetric, so the symmetry of the whole rests on the other cell's block
C15_Witness ==
    /\ driver = "diffusion" /\ step = "finalize"
    /\ msh.ncells = 2 /\ basis_size = 3
    /\ \E i, j \in Idx(3) :
          /\ SumAt(emitted, i, 3 + j) # 0
          /\ SumAt(emitted, i, 3 + j) # SumAt(emitted, j, 3 + i)
          /\ SumAt(emitted, i, 3 + j) = SumAt(emitted, 3 + j, i)

\* C16: the solver parameters carry use_normal_eqns = true in a run of an
\* advection-reaction solver and carry no assignment of it in a run of the
\* diffusion solver; from their configuration to the end of the run they do
\* not change, and they are the parameters the iterative solver is given.
C16_NormalEquationsFlag ==
    /\ [](cgp # <<>> =>
            cgp.use_normal_eqns = IF driver = "diffusion" THEN <<>> ELSE <<TRUE>>)
    /\ [](call.op = "conjugated_gradient" => call.args.cgp = cgp)
    /\ [][ cgp # <<>> => cgp' = cgp ]_vars

\* C16 witness: a run of the diffusion solver is through its iterative solve
\* with the flag never assigned
C16_Witness ==
    /\ driver = "diffusion" /\ step = "done"
    /\ call.op = "conjugated_gradient" /\ call.ret = "returned"
    /\ iter > 0
    /\ cgp.use_normal_eqns = <<>>

\* C17: for each cell the error pass reads exactly the solution entries
\* basis_size*offset(cell) + i, 0 <= i < basis_size, in this order; they are
\* the rows the assembler wrote for the cell; the blocks of distinct cells
\* are disjoint and together cover [0, N), N = basis_size * num_cells.
C17_ErrorPassReadsCellBlock ==
    /\ [][ step = "error" =>
             /\ DOMAIN loc_sol' = Idx(basis_size)
             /\ \A i \in Idx(basis_size) :
                   loc_sol'[i] = <<basis_size * offset(msh, ecl) + i>>
             /\ {loc_sol'[i][1] : i \in Idx(basis_size)} = cell_rows[ecl]
         ]_vars
    /\ [](step \in {"error", "done"} =>
             /\ sys_size = basis_size * msh.ncells
             /\ \A r \in Rows :
                   Cardinality({c \in Cells : r \in cell_rows[c]}) = 1
             /\ \A c \in Cells : cell_rows[c] \subseteq Rows)

\* C17 witness: the error pass over a two-cell mesh with permuted offsets has
\* read the block of the last cell, which is the first block of sol
C17_Witness ==
    /\ step = "done"
    /\ msh.ncells = 2 /\ basis_size = 3
    /\ msh.offset[1] = 0 /\ ecl = 1
    /\ loc_sol = [i \in Idx(3) |-> <<i>>]
    /\ cell_rows[0] = {3, 4, 5}

\* C12: the iterative solve terminates.  The drivers set its iteration
\* budget to twice the system dimension; the loop goes on only while the
\* relative residual is not below the tolerance and the budget is not used
\* up, so it is left at the first iteration where either holds; leaving it,
\* by convergence or not, returns the iterate to the driver, which goes on
\* to the error pass; and a solve that was entered does return.
C12_SolveTerminates ==
    /\ [](call.op = "conjugated_gradient" =>
            /\ call.args.cgp.max_iter = <<2 * sys_size>>
            /\ call.args.cgp.rr_tol = <<rr_tol>>
            /\ iter <= 2 * sys_size)
    /\ [][ (step = "cg" /\ step' = "cg") =>
             /\ rr >= rr_tol /\ iter < 2 * sys_size
             /\ iter' = iter + 1
         ]_vars
    /\ [][ (step = "cg" /\ step' # "cg") =>
             /\ rr < rr_tol \/ iter = 2 * sys_size
             /\ iter' = iter /\ rr' = rr
             /\ call'.ret = "returned"
             /\ step' = "error"
         ]_vars
    /\ (step = "cg") ~> (call.op = "conjugated_gradient" /\ call.ret = "returned")

\* C12 witness: a solve used up its budget of 2*N iterations, N = 6, without
\* converging, returned, and the run went through the error pass
C12_Witness ==
    /\ step = "done"
    /\ call.op = "conjugated_gradient" /\ call.ret = "returned"
    /\ sys_size = 6 /\ iter = 12
    /\ rr >= rr_tol

=============================================================================
